---- MODULE Spec2Model ----
(***************************************************************************)
(* Model of the amazon-ads-dashboard repository:                           *)
(*   server/services/data_service.py  DataService (table cache, filters)   *)
(*   app/pages/utils/metrics.py       compute_kpis_from_totals             *)
(*   app/pages/Drilldowns.py          aggregate_period                     *)
(*   app/pages/Overview.py            campaign aggregation, waste flag     *)
(*                                                                         *)
(* Python values are represented as follows.                               *)
(*   Optional[T]      a set with at most one element ({} is None)          *)
(*   date text        a string; DayStr[d] is the ISO text of day d         *)
(*   Timestamp        the day ordinal d >= 1; NaT is the ordinal 0         *)
(*   identifier cell  [t |-> python type, s |-> str(value)]                *)
(*   DataFrame        [columns |-> set of names, rows |-> sequence of      *)
(*                     records], row order being the frame's order         *)
(***************************************************************************)
EXTENDS Integers, Sequences, FiniteSets, TLC

VARIABLES
    disk,      \* artifacts/processed: name -> [parquet, csv], each Optional[frame]
    cache,     \* DataService._cache: name -> normalized frame (a partial function)
    last,      \* the last get_records call: its parameters and what it returned
    kpi,       \* the last compute_kpis_from_totals call: totals and result
    agg,       \* the last aggregate_period call: rows, group_cols and result
    overview,  \* the last run of the Overview page script: inputs and outcome
    reco,      \* the last run of the Recommendations page script
    reads,     \* name -> the frames the DataService has read from storage, in order
    threads    \* the get_records calls in flight on worker threads: position and locals

vars == <<disk, cache, last, kpi, agg, overview, reco, reads, threads>>

-----------------------------------------------------------------------------
(* Bounds of the model *)

MaxRows == 2      \* rows in the table on disk
MaxDay == 2       \* distinct calendar days in tables and in date parameters
MaxLimit == 2     \* largest limit parameter

-----------------------------------------------------------------------------
(* Values *)

DayStr ==
    <<"2024-01-01", "2024-01-02", "2024-01-03", "2024-01-04", "2024-01-05",
      "2024-01-06", "2024-01-07", "2024-01-08", "2024-01-09", "2024-01-10">>

Days == 1..MaxDay

NaT == 0

NoneVal == "<None>"

NotADate == "not-a-date"

IntCell(s) == [t |-> "int", s |-> s]

StrCell(s) == [t |-> "str", s |-> s]

NoneCell == [t |-> "NoneType", s |-> "None"]

\* pd.to_datetime(x, errors="coerce"): the day of an ISO date text, NaT otherwise
to_datetime(x) ==
    IF \E d \in 1..Len(DayStr) : DayStr[d] = x
    THEN CHOOSE d \in 1..Len(DayStr) : DayStr[d] = x
    ELSE NaT

\* Series.dt.strftime("%Y-%m-%d") followed by df.where(pd.notnull(df), None)
strftime(ts) == IF ts \in 1..Len(DayStr) THEN DayStr[ts] ELSE NoneVal

\* Python truthiness of an Optional[str]: None and "" are falsy
Truthy(opt) == opt # {} /\ opt # {""}

TheValue(opt) == CHOOSE x \in opt : TRUE

-----------------------------------------------------------------------------
(* DataFrame helpers *)

Min(a, b) == IF a <= b THEN a ELSE b

\* df[mask]: the rows the mask keeps, in the frame's order, as a new object
Masked(df, kept) == [columns |-> df.columns, rows |-> kept, shared |-> FALSE]

\* an exclusive upper bound
Lt(a, b) == a # NaT /\ b # NaT /\ a < b

\* Timestamp comparison; any comparison with NaT is False
Ge(a, b) == a # NaT /\ b # NaT /\ a >= b

Le(a, b) == a # NaT /\ b # NaT /\ a <= b

\* Series.astype(str) on an identifier cell
astype_str(cell) == cell.s

NaNCell == [t |-> "float", s |-> "nan"]

\* df.where(pd.notnull(df), None) on an identifier cell
where_notnull(cell) == IF cell = NaNCell THEN NoneCell ELSE cell

-----------------------------------------------------------------------------
(* DataService *)

TableNames == {"campaign_daily", "total_daily", "unknown_daily"}

NoFile == {}

\* a reader that answers a missing dataset with an empty table
_read_table_empty(d, name) ==
    IF d[name].parquet # NoFile
    THEN [err |-> "", df |-> TheValue(d[name].parquet)]
    ELSE IF d[name].csv # NoFile
         THEN [err |-> "", df |-> TheValue(d[name].csv)]
         ELSE [err |-> "", df |-> [columns |-> {}, rows |-> <<>>]]

_read_table(d, name) ==
    IF d[name].parquet # NoFile
    THEN [err |-> "", df |-> TheValue(d[name].parquet)]
    ELSE IF d[name].csv # NoFile
         THEN [err |-> "", df |-> TheValue(d[name].csv)]
         ELSE [err |-> "FileNotFoundError", df |-> [columns |-> {}, rows |-> <<>>]]

\* df["date"] = pd.to_datetime(df["date"], errors="coerce") when the column exists
normalize(df) ==
    IF "date" \in df.columns
    THEN [columns |-> df.columns,
          rows |-> [i \in 1..Len(df.rows) |->
                      [df.rows[i] EXCEPT !.date = to_datetime(df.rows[i].date)]]]
    ELSE df

\* a get_table that reads the table again on every call
get_table_reload(c, d, name) ==
    LET r == _read_table(d, name) IN
    IF r.err # ""
    THEN [err |-> r.err, cache |-> c, df |-> r.df, read |-> FALSE]
    ELSE LET df == normalize(r.df) IN
         [err |-> "", cache |-> (name :> df) @@ c, df |-> df, read |-> TRUE]

\* get_table: [err, cache after the call, the frame returned (the cached object),
\* read: whether the call has read the table from storage]
get_table(c, d, name) ==
    IF name \notin DOMAIN c
    THEN LET r == _read_table(d, name) IN
         IF r.err # ""
         THEN [err |-> r.err, cache |-> c, df |-> r.df, read |-> FALSE]
         ELSE LET df == normalize(r.df) IN
              [err |-> "", cache |-> (name :> df) @@ c, df |-> df, read |-> TRUE]
    ELSE [err |-> "", cache |-> c, df |-> c[name], read |-> FALSE]

\* DataFrame.copy() aliasing the original: a frame that is still the cached object
copy_alias(df) == [columns |-> df.columns, rows |-> df.rows, shared |-> TRUE]

\* DataFrame.copy(): a new object with the same content
copy(df) == [columns |-> df.columns, rows |-> df.rows, shared |-> FALSE]

\* a date filter that applies a bound even when it parsed to NaT
date_filter_nat(df, start_date, end_date) ==
    IF "date" \in df.columns /\ (Truthy(start_date) \/ Truthy(end_date))
    THEN LET sd == IF Truthy(start_date) THEN to_datetime(TheValue(start_date)) ELSE NaT
             df1 == IF Truthy(start_date)
                    THEN Masked(df, SelectSeq(df.rows, LAMBDA r : Ge(r.date, sd)))
                    ELSE df
             ed == IF Truthy(end_date) THEN to_datetime(TheValue(end_date)) ELSE NaT
         IN  IF Truthy(end_date)
             THEN Masked(df1, SelectSeq(df1.rows, LAMBDA r : Le(r.date, ed)))
             ELSE df1
    ELSE df

date_filter(df, start_date, end_date) ==
    IF "date" \in df.columns /\ (Truthy(start_date) \/ Truthy(end_date))
    THEN LET sd == IF Truthy(start_date) THEN to_datetime(TheValue(start_date)) ELSE NaT
             df1 == IF Truthy(start_date) /\ sd # NaT
                    THEN Masked(df, SelectSeq(df.rows, LAMBDA r : Ge(r.date, sd)))
                    ELSE df
             ed == IF Truthy(end_date) THEN to_datetime(TheValue(end_date)) ELSE NaT
         IN  IF Truthy(end_date) /\ ed # NaT
             THEN Masked(df1, SelectSeq(df1.rows, LAMBDA r : Le(r.date, ed)))
             ELSE df1
    ELSE df

\* a campaign filter that compares the cells themselves, without astype(str)
campaign_filter_typed(df, campaign_id) ==
    IF Truthy(campaign_id) /\ "campaign_id" \in df.columns
    THEN Masked(df, SelectSeq(df.rows, LAMBDA r : r.campaign_id = StrCell(TheValue(campaign_id))))
    ELSE df

campaign_filter(df, campaign_id) ==
    IF Truthy(campaign_id) /\ "campaign_id" \in df.columns
    THEN Masked(df, SelectSeq(df.rows, LAMBDA r : astype_str(r.campaign_id) = TheValue(campaign_id)))
    ELSE df

\* df.head(limit) when limit is an int > 0
apply_limit(df, limit) ==
    IF limit # {} /\ TheValue(limit) > 0
    THEN [columns |-> df.columns,
          rows |-> SubSeq(df.rows, 1, Min(TheValue(limit), Len(df.rows))),
          shared |-> FALSE]
    ELSE df

\* df["date"] = df["date"].dt.strftime("%Y-%m-%d"), then NaN -> None, per row
to_record(columns, r) ==
    [col \in columns |->
        IF col = "date" THEN strftime(r.date) ELSE where_notnull(r[col])]

to_records(df) == [i \in 1..Len(df.rows) |-> to_record(df.columns, df.rows[i])]

\* The date column assignment of line 83 is in place: it reaches the cached frame
\* when df is still that object, whose date column then holds text and no
\* Timestamp any more (NaT stands for "not a Timestamp" here).
cache_after_strftime(c, name, df) ==
    IF df.shared /\ "date" \in df.columns
    THEN [c EXCEPT ![name] =
            [columns |-> df.columns,
             rows |-> [i \in 1..Len(df.rows) |->
                         [df.rows[i] EXCEPT !.date = NaT]]]]
    ELSE c

\* get_records truncating before it filters
get_records_limit_first(c, d, name, start_date, end_date, campaign_id, limit) ==
    LET t == get_table(c, d, name) IN
    IF t.err # ""
    THEN [err |-> t.err, records |-> <<>>, cache |-> t.cache]
    ELSE LET df0 == copy(t.df)
             df1 == apply_limit(df0, limit)
             df2 == date_filter(df1, start_date, end_date)
             df3 == campaign_filter(df2, campaign_id)
         IN  [err |-> "", records |-> to_records(df3),
              cache |-> cache_after_strftime(t.cache, name, df3)]

\* get_records: [err, records, cache after the call]
get_records(c, d, name, start_date, end_date, campaign_id, limit) ==
    LET t == get_table(c, d, name) IN
    IF t.err # ""
    THEN [err |-> t.err, records |-> <<>>, cache |-> t.cache]
    ELSE LET df0 == copy(t.df)
             df1 == date_filter(df0, start_date, end_date)
             df2 == campaign_filter(df1, campaign_id)
             df3 == apply_limit(df2, limit)
         IN  [err |-> "", records |-> to_records(df3),
              cache |-> cache_after_strftime(t.cache, name, df3)]

-----------------------------------------------------------------------------
(* Metrics: ratios are exact fractions in lowest terms; NaN is the undefined  *)
(* value, ZeroDivisionError what a Python float division by zero raises.      *)

MaxCount == 2     \* largest counter value in a totals mapping

RECURSIVE Gcd(_, _)
Gcd(a, b) == IF b = 0 THEN a ELSE Gcd(b, a % b)

NaN == [num |-> 0, den |-> 0]

ZeroDivisionError == [num |-> 1, den |-> 0]

\* a / b on floats
Div(a, b) ==
    IF b = 0 THEN ZeroDivisionError
    ELSE [num |-> a \div Gcd(a, b), den |-> b \div Gcd(a, b)]

Abs(n) == IF n < 0 THEN 0 - n ELSE n

\* x - y on floats; NaN when either operand is
Sub(x, y) ==
    IF x = NaN \/ y = NaN THEN NaN
    ELSE LET n == x.num * y.den - y.num * x.den
             d == x.den * y.den
         IN  [num |-> n \div Gcd(Abs(n), d), den |-> d \div Gcd(Abs(n), d)]

Counters == <<"impressions", "clicks", "cost", "orders", "sales">>

CounterSet == {Counters[i] : i \in 1..Len(Counters)}

\* totals.get(key, 0) or 0 on a dict or Series
Get(totals, key) == IF key \in DOMAIN totals.vals THEN totals.vals[key] ELSE 0

NoKpis == [err |-> "", ctr |-> NaN, cpc |-> NaN, cvr |-> NaN, acos |-> NaN, roas |-> NaN]

\* KPIs that report 0 where the denominator is 0
compute_kpis_zero(totals) ==
    LET imp == Get(totals, "impressions")
        clk == Get(totals, "clicks")
        cost == Get(totals, "cost")
        ords == Get(totals, "orders")
        sales == Get(totals, "sales")
    IN  [err |-> "",
         ctr |-> IF imp = 0 THEN Div(0, 1) ELSE Div(clk, imp),
         cpc |-> IF clk = 0 THEN Div(0, 1) ELSE Div(cost, clk),
         cvr |-> IF clk = 0 THEN Div(0, 1) ELSE Div(ords, clk),
         acos |-> IF sales = 0 THEN Div(0, 1) ELSE Div(cost, sales),
         roas |-> IF cost = 0 THEN Div(0, 1) ELSE Div(sales, cost)]

\* compute_kpis_from_totals. totals.kind is "mapping" for a dict or Series and
\* "frame" for a DataFrame: DataFrame.get returns a column, a Series, and
\* `Series or 0` asks for its truth value, which raises ValueError.
compute_kpis_from_totals(totals) ==
    IF totals.kind = "frame"
    THEN [NoKpis EXCEPT !.err = "ValueError"]
    ELSE LET imp == Get(totals, "impressions")
             clk == Get(totals, "clicks")
             cost == Get(totals, "cost")
             ords == Get(totals, "orders")
             sales == Get(totals, "sales")
         IN  [err |-> "",
              ctr |-> IF imp = 0 THEN NaN ELSE Div(clk, imp),
              cpc |-> IF clk = 0 THEN NaN ELSE Div(cost, clk),
              cvr |-> IF clk = 0 THEN NaN ELSE Div(ords, clk),
              acos |-> IF sales = 0 THEN NaN ELSE Div(cost, sales),
              roas |-> IF cost = 0 THEN NaN ELSE Div(sales, cost)]

-----------------------------------------------------------------------------
(* Group aggregation *)

MaxAggRows == 2   \* rows in a frame given to a group aggregation

NullKey == "<NaN>"

RECURSIVE SumCol(_, _)
SumCol(rws, col) ==
    IF rws = <<>> THEN 0 ELSE rws[1][col] + SumCol(Tail(rws), col)

KeyOf(row, group_cols) == [i \in 1..Len(group_cols) |-> row[group_cols[i]]]

HasNull(key) == \E i \in 1..Len(key) : key[i] = NullKey

\* the keys of df.groupby(group_cols): pandas' default dropna=True leaves out
\* every row that has a null in one of the key columns
group_keys(rws, group_cols) ==
    {k \in {KeyOf(rws[i], group_cols) : i \in 1..Len(rws)} : ~HasNull(k)}

\* df.groupby(group_cols, as_index=False).agg(<counter>=(<counter>, "sum")):
\* one row per key with the key columns and the five sums. The frame is
\* modelled as the set of its rows (pandas orders them by key).
groupby_sum(rws, group_cols) ==
    {[col \in {group_cols[i] : i \in 1..Len(group_cols)} \cup CounterSet |->
        LET mine == SelectSeq(rws, LAMBDA r : KeyOf(r, group_cols) = k) IN
        IF col \in CounterSet
        THEN SumCol(mine, col)
        ELSE k[CHOOSE i \in 1..Len(group_cols) : group_cols[i] = col]]
     : k \in group_keys(rws, group_cols)}

\* np.where(den == 0, np.nan, num / den) on one row
np_where_ratio(num, den) == IF den = 0 THEN NaN ELSE Div(num, den)

Extend(g, more) == [col \in DOMAIN g \cup DOMAIN more |->
                      IF col \in DOMAIN more THEN more[col] ELSE g[col]]

\* the five derived columns, from the row's own (summed) counters
with_metrics(g) ==
    Extend(g, [ctr |-> np_where_ratio(g.clicks, g.impressions),
               cpc |-> np_where_ratio(g.cost, g.clicks),
               cvr |-> np_where_ratio(g.orders, g.clicks),
               acos |-> np_where_ratio(g.cost, g.sales),
               roas |-> np_where_ratio(g.sales, g.cost)])

aggregate_period(rws, group_cols) ==
    {with_metrics(g) : g \in groupby_sum(rws, group_cols)}

-----------------------------------------------------------------------------
(* The Overview page script *)

MaxThreshold == 2  \* largest zero-sales spend threshold

CampaignKeys == <<"campaign_id", "campaign_name">>

\* total_cost = camp_agg["cost"].sum() and the like, over the set of group rows
RECURSIVE SumOver(_, _)
SumOver(groups, col) ==
    IF groups = {} THEN 0
    ELSE LET g == CHOOSE x \in groups : TRUE IN g[col] + SumOver(groups \ {g}, col)

\* spend_share, sales_share, share_gap: a share is NaN for every row when the
\* total of its own column is 0, and share_gap is NaN when either share is
with_shares(g, total_cost, total_sales) ==
    LET spend == IF total_cost = 0 THEN NaN ELSE Div(g.cost, total_cost)
        sales == IF total_sales = 0 THEN NaN ELSE Div(g.sales, total_sales)
        gap == Sub(spend, sales)
    IN  Extend(g, [spend_share |-> spend, sales_share |-> sales, share_gap |-> gap])

zero_sales_spend_flag(cost, sales, threshold) == cost >= threshold /\ sales <= 0

with_flag(g, threshold) ==
    Extend(g, [zero_sales_spend_flag |->
                 zero_sales_spend_flag(g.cost, g.sales, threshold)])

\* One run of the script on the campaign rows cd of the selected period:
\* [status, kpis (headline), camp_agg (the campaign table as far as it got)].
\* total_daily holds the same days as campaign_daily, so td is empty with cd.
overview_run(cd, threshold) ==
    IF cd = <<>>
    THEN [status |-> "stopped", kpis |-> NoKpis, camp_agg |-> {}]
    ELSE LET totals == [kind |-> "mapping",
                        vals |-> [c \in CounterSet |-> SumCol(cd, c)]]
             kpis == compute_kpis_from_totals(totals)
             camp_agg == groupby_sum(cd, CampaignKeys)
             k == compute_kpis_from_totals([kind |-> "frame", vals |-> camp_agg])
         IN  IF k.err # ""
             THEN [status |-> k.err, kpis |-> kpis, camp_agg |-> camp_agg]
             ELSE LET m == {with_metrics(g) : g \in camp_agg}
                      total_cost == SumOver(m, "cost")
                      total_sales == SumOver(m, "sales")
                      sh == {with_shares(g, total_cost, total_sales) : g \in m}
                  IN  [status |-> "rendered", kpis |-> kpis,
                       camp_agg |-> {with_flag(g, threshold) : g \in sh}]

-----------------------------------------------------------------------------
(* The files under artifacts/processed and the requests *)

DateTexts == {DayStr[d] : d \in Days} \cup {NotADate}

CampaignCells == {IntCell("123"), StrCell("abc")}

RawRows == [date : DateTexts, campaign_id : CampaignCells]

RawTables == UNION {[1..k -> RawRows] : k \in 0..MaxRows}

Frame(cols, rws) == [columns |-> cols, rows |-> rws]

\* an older export of the same table: its last row is missing
Stale(rws) == IF rws = <<>> THEN <<>> ELSE SubSeq(rws, 1, Len(rws) - 1)

DropCampaign(rws) == [i \in 1..Len(rws) |-> [date |-> rws[i].date]]

\* campaign_daily exists in both forms (the csv is stale), total_daily only as
\* csv and without a campaign_id column, unknown_daily in neither form.
DiskOf(rws) ==
    [n \in TableNames |->
        CASE n = "campaign_daily" ->
                [parquet |-> {Frame({"date", "campaign_id"}, rws)},
                 csv |-> {Frame({"date", "campaign_id"}, Stale(rws))}]
          [] n = "total_daily" ->
                [parquet |-> NoFile,
                 csv |-> {Frame({"date"}, DropCampaign(rws))}]
          [] OTHER -> [parquet |-> NoFile, csv |-> NoFile]]

DateArgs == {{}} \cup {{x} : x \in DateTexts}

CampaignArgs == {{}, {""}, {"123"}}

LimitArgs == {{}} \cup {{n} : n \in 1..MaxLimit}

EmptyCache == [n \in {} |-> 0]

NoCall ==
    [called |-> FALSE, name |-> "", start_date |-> {}, end_date |-> {},
     campaign_id |-> {}, limit |-> {}, loaded |-> FALSE,
     err |-> "", records |-> <<>>]

NoKpi == [called |-> FALSE]

NoAgg == [called |-> FALSE]

NoOverview == [called |-> FALSE]

NoReco == [called |-> FALSE]

NoReads == [n \in TableNames |-> <<>>]

MaxThreads == 2   \* worker threads serving requests at the same time

Threads == 1..MaxThreads

NoThread == [pc |-> "idle"]

NoThreads == [t \in Threads |-> NoThread]

\* totals as a dict: any of the five keys may be missing
TotalsArgs ==
    UNION {[keys -> 0..MaxCount] : keys \in SUBSET CounterSet}

\* (impressions, clicks, orders) and (cost, sales) of the rows that are aggregated
TrafficCases == {<<0, 0, 0>>, <<2, 0, 0>>, <<2, 1, 1>>}

MoneyCases == {<<0, 0>>, <<1, 0>>, <<1, 2>>}

\* rows with two key columns; a key cell may be null
PageRows(key1, key2) ==
    {[col \in {key1, key2} \cup CounterSet |->
        CASE col = key1 -> a
          [] col = key2 -> b
          [] col = "impressions" -> t[1]
          [] col = "clicks" -> t[2]
          [] col = "orders" -> t[3]
          [] col = "cost" -> m[1]
          [] OTHER -> m[2]]
     : a \in {"a1", "a2", NullKey}, b \in {"b1", NullKey},
       t \in TrafficCases, m \in MoneyCases}

PageFrames(key1, key2) ==
    UNION {[1..k -> PageRows(key1, key2)] : k \in 0..MaxAggRows}

GroupColsArgs == {<<"asin", "sku">>, <<"asin">>}

Init ==
    /\ \E rws \in RawTables : disk = DiskOf(rws)
    /\ cache = EmptyCache
    /\ last = NoCall
    /\ kpi = NoKpi
    /\ agg = NoAgg
    /\ overview = NoOverview
    /\ reco = NoReco
    /\ reads = NoReads
    /\ threads = NoThreads

\* one request served by data_service.get_records; last holds the call and its
\* response until the caller has taken it
GetRecords(name, start_date, end_date, campaign_id, limit) ==
    LET r == get_records(cache, disk, name, start_date, end_date, campaign_id, limit)
    IN  /\ ~last.called
        /\ cache' = r.cache
        /\ last' = [called |-> TRUE, name |-> name, start_date |-> start_date,
                    end_date |-> end_date, campaign_id |-> campaign_id,
                    limit |-> limit, loaded |-> name \notin DOMAIN cache,
                    err |-> r.err, records |-> r.records]
        /\ reads' = IF get_table(cache, disk, name).read
                    THEN [reads EXCEPT ![name] = Append(@, _read_table(disk, name).df)]
                    ELSE reads
        /\ UNCHANGED <<disk, kpi, agg, overview, reco, threads>>

\* the response has been delivered; the service is ready for the next request
Return ==
    /\ last.called
    /\ last' = NoCall
    /\ UNCHANGED <<disk, cache, kpi, agg, overview, reco, reads, threads>>

Next ==
    \/ ~last.called /\
          \E name \in TableNames, start_date \in DateArgs, end_date \in DateArgs,
             campaign_id \in CampaignArgs, limit \in LimitArgs :
              GetRecords(name, start_date, end_date, campaign_id, limit)
    \/ Return

Spec == Init /\ [][Next]_vars

-----------------------------------------------------------------------------
(* The dashboard pages: each action is one call or one script run; its record *)
(* is kept until the page has been drawn.                                     *)

Idle == ~kpi.called /\ ~agg.called /\ ~overview.called

InitPages ==
    /\ disk = DiskOf(<<>>)
    /\ cache = EmptyCache
    /\ last = NoCall
    /\ kpi = NoKpi
    /\ agg = NoAgg
    /\ overview = NoOverview
    /\ reco = NoReco
    /\ reads = NoReads
    /\ threads = NoThreads

ComputeKpis(vals) ==
    /\ Idle
    /\ kpi' = [called |-> TRUE, totals |-> vals,
               result |-> compute_kpis_from_totals([kind |-> "mapping", vals |-> vals])]
    /\ UNCHANGED <<disk, cache, last, agg, overview, reco, reads, threads>>

AggregatePeriod(rws, group_cols) ==
    /\ Idle
    /\ agg' = [called |-> TRUE, rows |-> rws, group_cols |-> group_cols,
               result |-> aggregate_period(rws, group_cols)]
    /\ UNCHANGED <<disk, cache, last, kpi, overview, reco, reads, threads>>

Overview(cd, threshold) ==
    /\ Idle
    /\ overview' = [called |-> TRUE, cd |-> cd, threshold |-> threshold,
                    run |-> overview_run(cd, threshold)]
    /\ UNCHANGED <<disk, cache, last, kpi, agg, reco, reads, threads>>

PageDone ==
    /\ ~Idle
    /\ kpi' = NoKpi
    /\ agg' = NoAgg
    /\ overview' = NoOverview
    /\ UNCHANGED <<disk, cache, last, reco, reads, threads>>

NextPages ==
    \/ Idle /\ \E vals \in TotalsArgs : ComputeKpis(vals)
    \/ Idle /\ \E rws \in PageFrames("asin", "sku"), group_cols \in GroupColsArgs :
                  AggregatePeriod(rws, group_cols)
    \/ Idle /\ \E cd \in PageFrames("campaign_id", "campaign_name"),
                  threshold \in 0..MaxThreshold :
                  Overview(cd, threshold)
    \/ PageDone

SpecPages == InitPages /\ [][NextPages]_vars

-----------------------------------------------------------------------------
(* What the claims are stated against: the file a table name stands for, and *)
(* the rows a request is meant to return, written from the files on disk.    *)

HasFile(name) == disk[name].parquet # NoFile \/ disk[name].csv # NoFile

SourceFrame(name) ==
    IF disk[name].parquet # NoFile
    THEN TheValue(disk[name].parquet)
    ELSE TheValue(disk[name].csv)

\* the day a date text denotes, as a set: empty when the text is no date
DayOf(text) == {d \in 1..Len(DayStr) : DayStr[d] = text}

\* the day a date parameter denotes: empty when absent or unparsable
DayArg(opt) == UNION {DayOf(x) : x \in opt}

Parses(opt) == opt # {} /\ DayArg(opt) # {}

Unparsable(opt) == opt # {} /\ DayArg(opt) = {}

InRange(row, lo, hi) ==
    /\ lo # {} => \E d \in DayOf(row.date) : \A l \in lo : l <= d
    /\ hi # {} => \E d \in DayOf(row.date) : \A h \in hi : d <= h

\* a source row as it is served: date as ISO text or null, other cells as they are
Served(columns, row) ==
    [col \in columns |->
        IF col = "date"
        THEN (IF DayOf(row.date) = {} THEN NoneVal ELSE row.date)
        ELSE row[col]]

ServedRows(columns, rws) == [i \in 1..Len(rws) |-> Served(columns, rws[i])]

\* the rows of the table within the day bounds lo..hi (each a set of at most one day)
DateRows(name, lo, hi) ==
    LET f == SourceFrame(name) IN
    IF "date" \in f.columns
    THEN SelectSeq(f.rows, LAMBDA r : InRange(r, lo, hi))
    ELSE f.rows

FirstRows(rws, n) == [i \in 1..Min(n, Len(rws)) |-> rws[i]]

Ok == last.called /\ last.err = ""

\* C1: for a table with a date column, when the bounds supplied parse as dates
\* (and no campaign or limit is given), the records returned are exactly the
\* table rows with start_date <= date <= end_date, an absent bound imposing
\* nothing, in table order.
C1_DateRangeInclusive ==
    (/\ Ok
     /\ "date" \in SourceFrame(last.name).columns
     /\ Parses(last.start_date) \/ Parses(last.end_date)
     /\ ~Unparsable(last.start_date) /\ ~Unparsable(last.end_date)
     /\ last.campaign_id = {} /\ last.limit = {})
    => last.records =
         ServedRows(SourceFrame(last.name).columns,
                    DateRows(last.name, DayArg(last.start_date), DayArg(last.end_date)))

\* a request with both bounds returned some rows of the table and dropped others
C1_Witness ==
    /\ Ok
    /\ Parses(last.start_date) /\ Parses(last.end_date)
    /\ last.campaign_id = {} /\ last.limit = {}
    /\ last.records # <<>>
    /\ Len(last.records) < Len(SourceFrame(last.name).rows)

\* the rows left by the date-range and campaign_id filters, from the source file
FilteredRows(name, start_date, end_date, campaign_id) ==
    LET f == SourceFrame(name)
        rws == DateRows(name, DayArg(start_date), DayArg(end_date))
    IN  IF campaign_id # {} /\ campaign_id # {""} /\ "campaign_id" \in f.columns
        THEN SelectSeq(rws, LAMBDA r : \A v \in campaign_id : r.campaign_id.s = v)
        ELSE rws

LastFiltered ==
    ServedRows(SourceFrame(last.name).columns,
               FilteredRows(last.name, last.start_date, last.end_date,
                            last.campaign_id))

\* C2: with a positive limit the records are the first min(limit, n) of the n
\* filtered rows (truncation after filtering, table order kept); with no limit
\* they are the whole filtered set.
C2_LimitAfterFilter ==
    Ok => /\ last.limit = {} => last.records = LastFiltered
          /\ \A n \in last.limit :
                n > 0 => last.records = FirstRows(LastFiltered, n)

\* a limit of 1 returned the second row of the table, the first one being filtered out
C2_Witness ==
    /\ Ok
    /\ last.limit = {1}
    /\ Len(SourceFrame(last.name).rows) = 2
    /\ Len(LastFiltered) = 1
    /\ last.records =
         ServedRows(SourceFrame(last.name).columns,
                    <<SourceFrame(last.name).rows[2]>>)
    /\ SourceFrame(last.name).rows[1] # SourceFrame(last.name).rows[2]

\* what a call with the same parameters returns on a DataService that has loaded nothing
FirstCall ==
    get_records(EmptyCache, disk, last.name, last.start_date, last.end_date,
                last.campaign_id, last.limit)

\* C3: every get_records call, whether it loads the table or is served from the
\* cache and whatever calls came before, returns what the first such call on a
\* new DataService returns (so equal parameters give equal output), and the
\* cached tables are the normalized source files, unchanged by any call.
C3_Idempotent ==
    /\ last.called =>
          /\ last.err = FirstCall.err
          /\ last.records = FirstCall.records
    /\ \A n \in DOMAIN cache : HasFile(n) /\ cache[n] = normalize(SourceFrame(n))

\* a call served from the cache, after another table was loaded as well
C3_Witness ==
    /\ Ok
    /\ ~last.loaded
    /\ last.records # <<>>
    /\ Cardinality(DOMAIN cache) = 2

\* C4: a call for a name with neither a parquet nor a csv file fails with the
\* dataset-not-found error (it returns no record list, and nothing is cached
\* for the name), and no other call fails; when only the csv exists the call
\* succeeds with the csv's rows.
C4_UnknownTable ==
    last.called =>
       /\ last.err = "FileNotFoundError" <=> ~HasFile(last.name)
       /\ last.err \in {"", "FileNotFoundError"}
       /\ ~HasFile(last.name) => last.name \notin DOMAIN cache
       /\ (/\ disk[last.name].parquet = NoFile
           /\ disk[last.name].csv # NoFile
           /\ last.start_date = {} /\ last.end_date = {}
           /\ last.campaign_id = {} /\ last.limit = {})
          => /\ last.err = ""
             /\ last.records =
                  ServedRows(TheValue(disk[last.name].csv).columns,
                             TheValue(disk[last.name].csv).rows)

\* a call for the table that exists in neither form has failed
C4_Witness ==
    /\ last.called
    /\ last.name = "unknown_daily"
    /\ last.err = "FileNotFoundError"

\* C5: an unparsable start_date or end_date raises nothing and removes no row,
\* and the other bound, when parsable, is still applied: the call returns what
\* it returns with the unparsable bounds absent.
C5_UnparsableIgnored ==
    (/\ last.called /\ HasFile(last.name)
     /\ Unparsable(last.start_date) \/ Unparsable(last.end_date))
    => /\ last.err = ""
       /\ LET kept(b) == IF Unparsable(b) THEN {} ELSE b
              rws == FilteredRows(last.name, kept(last.start_date),
                                  kept(last.end_date), last.campaign_id)
              all == ServedRows(SourceFrame(last.name).columns, rws)
          IN  last.records =
                 IF last.limit = {} THEN all
                 ELSE FirstRows(all, TheValue(last.limit))

\* an unparsable start_date was ignored while the parsable end_date removed a row
C5_Witness ==
    /\ Ok
    /\ Unparsable(last.start_date)
    /\ Parses(last.end_date)
    /\ last.campaign_id = {} /\ last.limit = {}
    /\ last.records # <<>>
    /\ Len(last.records) < Len(SourceFrame(last.name).rows)

\* the date-filtered rows of the last call's table, before any campaign filter
LastDateRows ==
    DateRows(last.name, DayArg(last.start_date), DayArg(last.end_date))

HasCampaignColumn(name) == "campaign_id" \in SourceFrame(name).columns

\* the rows among rws whose campaign_id, as a string, is v
CampaignRows(name, rws, v) ==
    SelectSeq(rws, LAMBDA r : HasCampaignColumn(name) /\ r.campaign_id.s = v)

\* C6 as stated: whenever a campaign_id is supplied the records are exactly the
\* date-filtered rows whose campaign_id equals it as a string, and with no
\* campaign_id the filter removes nothing.
C6_Original ==
    (Ok /\ last.limit = {}) =>
       /\ \A v \in last.campaign_id :
             last.records =
                ServedRows(SourceFrame(last.name).columns,
                           CampaignRows(last.name, LastDateRows, v))
       /\ last.campaign_id = {} =>
             last.records = ServedRows(SourceFrame(last.name).columns, LastDateRows)

\* C6 (amended): when a non-empty campaign_id is supplied and the table has a
\* campaign_id column, the records are exactly the date-filtered rows whose
\* campaign_id equals it as a string (the int 123 matches "123"); when
\* campaign_id is missing or empty, or the table has no campaign_id column,
\* the filter removes no row.
C6_CampaignExactMatch ==
    (Ok /\ last.limit = {}) =>
       /\ \A v \in last.campaign_id :
             (v # "" /\ HasCampaignColumn(last.name)) =>
                last.records =
                   ServedRows(SourceFrame(last.name).columns,
                              CampaignRows(last.name, LastDateRows, v))
       /\ (\/ last.campaign_id = {}
           \/ last.campaign_id = {""}
           \/ ~HasCampaignColumn(last.name)) =>
             last.records = ServedRows(SourceFrame(last.name).columns, LastDateRows)

\* campaign_id "123" kept the row whose campaign_id is the int 123 and dropped another
C6_Witness ==
    /\ Ok
    /\ HasCampaignColumn(last.name)
    /\ last.campaign_id = {"123"}
    /\ last.limit = {}
    /\ Len(last.records) = 1
    /\ last.records[1].campaign_id = IntCell("123")
    /\ Len(LastDateRows) = 2

-----------------------------------------------------------------------------
(* Claims about the dashboard pages, checked under SpecPages *)

Total(key) == IF key \in DOMAIN kpi.totals THEN kpi.totals[key] ELSE 0

NoException(r) ==
    /\ r.err = ""
    /\ \A f \in {"ctr", "cpc", "cvr", "acos", "roas"} : r[f] # ZeroDivisionError

\* C7 as stated: with clicks = 0 ctr, cpc and cvr are all undefined, with
\* cost = 0 roas is, with sales = 0 acos is, and nothing is raised.
C7_Original ==
    kpi.called =>
       /\ Total("clicks") = 0 =>
             /\ kpi.result.ctr = NaN
             /\ kpi.result.cpc = NaN
             /\ kpi.result.cvr = NaN
       /\ Total("cost") = 0 => kpi.result.roas = NaN
       /\ Total("sales") = 0 => kpi.result.acos = NaN
       /\ NoException(kpi.result)

\* C7 (amended): for totals given as a mapping, ctr is undefined when
\* impressions = 0 (with clicks = 0 and impressions > 0 it is 0, a defined
\* value); cpc and cvr are undefined when clicks = 0; roas when cost = 0; acos
\* when sales = 0; a missing key counts as 0 and nothing is raised.
C7_ZeroDenominators ==
    kpi.called =>
       /\ Total("impressions") = 0 => kpi.result.ctr = NaN
       /\ (Total("clicks") = 0 /\ Total("impressions") > 0) =>
             kpi.result.ctr = [num |-> 0, den |-> 1]
       /\ Total("clicks") = 0 => (kpi.result.cpc = NaN /\ kpi.result.cvr = NaN)
       /\ Total("cost") = 0 => kpi.result.roas = NaN
       /\ Total("sales") = 0 => kpi.result.acos = NaN
       /\ NoException(kpi.result)

\* KPIs were computed from totals whose clicks, cost and sales are all 0 while
\* impressions are not
C7_Witness ==
    /\ kpi.called
    /\ Total("impressions") > 0
    /\ Total("clicks") = 0 /\ Total("cost") = 0 /\ Total("sales") = 0
    /\ "orders" \notin DOMAIN kpi.totals
    /\ kpi.result.cpc = NaN /\ kpi.result.roas = NaN /\ kpi.result.acos = NaN

\* the key combinations of the input rows in which every key has a value
PresentKeys(rws, group_cols) ==
    {k \in {KeyOf(rws[i], group_cols) : i \in 1..Len(rws)} :
        \A j \in 1..Len(k) : k[j] # NullKey}

RowsOfKey(rws, group_cols, k) == SelectSeq(rws, LAMBDA r : KeyOf(r, group_cols) = k)

Quotient(num, den) ==
    IF den = 0 THEN NaN ELSE [num |-> num \div Gcd(num, den), den |-> den \div Gcd(num, den)]

HasMetrics(g) == {"ctr", "cpc", "cvr", "acos", "roas"} \subseteq DOMAIN g

\* out holds one group per key combination of rws, each with the sums of its
\* rows and the five ratios of those sums
Aggregated(rws, group_cols, out) ==
    /\ \A k \in PresentKeys(rws, group_cols) :
          Cardinality({g \in out : KeyOf(g, group_cols) = k}) = 1
    /\ \A g \in out :
          LET k == KeyOf(g, group_cols)
              mine == RowsOfKey(rws, group_cols, k)
          IN  /\ k \in PresentKeys(rws, group_cols)
              /\ \A c \in CounterSet : g[c] = SumCol(mine, c)
              /\ HasMetrics(g)
              /\ g.ctr = Quotient(SumCol(mine, "clicks"), SumCol(mine, "impressions"))
              /\ g.cpc = Quotient(SumCol(mine, "cost"), SumCol(mine, "clicks"))
              /\ g.cvr = Quotient(SumCol(mine, "orders"), SumCol(mine, "clicks"))
              /\ g.acos = Quotient(SumCol(mine, "cost"), SumCol(mine, "sales"))
              /\ g.roas = Quotient(SumCol(mine, "sales"), SumCol(mine, "cost"))

\* C8: aggregate_period and the Overview campaign aggregation each give one
\* group per distinct combination of key values in the input, with the summed
\* counters of its rows and every derived metric recomputed from those sums.
C8_GroupAggregation ==
    /\ agg.called => Aggregated(agg.rows, agg.group_cols, agg.result)
    /\ (overview.called /\ overview.cd # <<>>) =>
          /\ overview.run.status = "rendered"
          /\ Aggregated(overview.cd, CampaignKeys, overview.run.camp_agg)

\* C8, aggregate_period alone: what the claim says holds of aggregate_period
\* for the key combinations without a null.
C8_AggregatePeriodOnly ==
    agg.called => Aggregated(agg.rows, agg.group_cols, agg.result)

\* C9: rows with a null grouping key form a group of their own: every input
\* row has its group in the output, and each counter summed over the output
\* groups equals the counter summed over the input rows.
C9_NullKeysKept ==
    /\ agg.called =>
          /\ \A i \in 1..Len(agg.rows) :
                \E g \in agg.result :
                   KeyOf(g, agg.group_cols) = KeyOf(agg.rows[i], agg.group_cols)
          /\ \A c \in CounterSet : SumOver(agg.result, c) = SumCol(agg.rows, c)
    /\ overview.called =>
          \A c \in CounterSet :
             SumOver(overview.run.camp_agg, c) = SumCol(overview.cd, c)

\* C10: every aggregate group of the Overview carries a zero-sales waste flag
\* that is true iff group cost >= threshold and group sales <= 0.
C10_WasteFlag ==
    (overview.called /\ overview.cd # <<>>) =>
       \A g \in overview.run.camp_agg :
          /\ "zero_sales_spend_flag" \in DOMAIN g
          /\ g.zero_sales_spend_flag <=>
                (g.cost >= overview.threshold /\ g.sales <= 0)

\* C11: over the groups of one Overview period, spend_share = cost / total
\* cost, sales_share = sales / total sales and share_gap = spend_share -
\* sales_share; when the total cost is 0 both shares are undefined for every
\* group; nothing is raised.
C11_Shares ==
    (overview.called /\ overview.cd # <<>>) =>
       LET groups == overview.run.camp_agg
           total_cost == SumOver(groups, "cost")
           total_sales == SumOver(groups, "sales")
       IN  /\ overview.run.status = "rendered"
           /\ \A g \in groups :
                 /\ {"spend_share", "sales_share", "share_gap"} \subseteq DOMAIN g
                 /\ g.spend_share = Quotient(g.cost, total_cost)
                 /\ g.sales_share = IF total_cost = 0 THEN NaN
                                    ELSE Quotient(g.sales, total_sales)
                 /\ g.share_gap = Sub(g.spend_share, g.sales_share)

-----------------------------------------------------------------------------
(* The Recommendations page: scoring with the two models, then the waste and  *)
(* scale candidates. A frame is [columns, rows]; the rows hold the columns    *)
(* the script computes with (cost, sales, the waste flag, the two             *)
(* predictions) as floats, the other columns are carried in columns only.     *)

MaxScored == 2    \* rows of the selected day

F(n) == [num |-> n, den |-> 1]

\* x >= y on floats: False when either side is NaN
FGe(x, y) == x # NaN /\ y # NaN /\ x.num * y.den >= y.num * x.den

FGt(x, y) == x # NaN /\ y # NaN /\ x.num * y.den > y.num * x.den

\* pd.to_numeric(col, errors="coerce").fillna(0) on a float cell
to_numeric_fillna0(x) == IF x = NaN THEN F(0) ELSE x

\* X = df_features.copy(): a frame of its own
df_features_alias(df) == [frame |-> df, alias |-> TRUE]

df_features_copy(df) == [frame |-> df, alias |-> FALSE]

\* for col in features: if col not in X.columns: X[col] = 0
add_missing(X, features) ==
    LET missing == {features[i] : i \in 1..Len(features)} \ X.columns
    IN  [columns |-> X.columns \cup missing,
         rows |-> [i \in 1..Len(X.rows) |->
                     Extend(X.rows[i], [col \in missing |-> F(0)])]]

\* X = X[features]: each row as the tuple of the feature values, in schema order
select_features(X, features) ==
    [i \in 1..Len(X.rows) |-> [j \in 1..Len(features) |-> X.rows[i][features[j]]]]

\* out[name] = values, one value per row
assign(df, name, values) ==
    [columns |-> df.columns \cup {name},
     rows |-> [i \in 1..Len(df.rows) |-> Extend(df.rows[i], [col \in {name} |-> values[i]])]]

\* predict_with_models under a loaded schema and loaded models. The models
\* are external: waste_prob and future_roas are what clf.predict_proba(X)[:, 1]
\* and reg.predict(X) answer for this X. The result holds the input frame as
\* it is after the call, the X the models received, and the returned frame.
predict_with_models(df_features, features, waste_prob, future_roas) ==
    LET X0 == df_features_copy(df_features)
        X1 == add_missing(X0.frame, features)
        after == IF X0.alias THEN X1 ELSE df_features
        out == assign(assign(after, "waste_risk_prob", waste_prob),
                      "pred_future7_roas", future_roas)
    IN  [df_features |-> after, X |-> select_features(X1, features), out |-> out]

\* lines 36-41: the cost and sales cells become numbers, null becoming 0
clean(df) ==
    [columns |-> df.columns,
     rows |-> [i \in 1..Len(df.rows) |->
                 [col \in DOMAIN df.rows[i] |->
                    IF col \in {"cost", "sales"}
                    THEN to_numeric_fillna0(df.rows[i][col])
                    ELSE df.rows[i][col]]]]

\* scored.get("zero_sales_spend_flag", False) == True, on one row
flag_is_true(df, r) ==
    "zero_sales_spend_flag" \in df.columns /\ r.zero_sales_spend_flag = TRUE

waste_mask(df, r, min_spend, waste_prob_cutoff) ==
    /\ FGe(r.cost, min_spend)
    /\ flag_is_true(df, r) \/ FGe(r.waste_risk_prob, waste_prob_cutoff)

\* ascending insertion of one float into a sorted sequence of floats
RECURSIVE np_sort(_)
np_sort(vals) ==
    IF vals = <<>> THEN <<>>
    ELSE LET rest == np_sort(Tail(vals))
             v == vals[1]
             k == Cardinality({i \in 1..Len(rest) : FGt(v, rest[i])})
         IN  SubSeq(rest, 1, k) \o <<v>> \o SubSeq(rest, k + 1, Len(rest))

\* scored["pred_future7_roas"].dropna()
dropna(vals) == SelectSeq(vals, LAMBDA v : v # NaN)

\* np.nanpercentile(vals, q), linear interpolation between the two nearest
\* ranks; NaN (with a warning) for an empty input
nanpercentile(vals, q) ==
    IF dropna(vals) = <<>> THEN NaN
    ELSE LET s == np_sort(dropna(vals))
             h == q * (Len(s) - 1)
             lo == h \div 100
             r == h % 100
             a == s[lo + 1]
             b == IF r = 0 THEN a ELSE s[lo + 2]
             n == 100 * a.num * b.den + r * (b.num * a.den - a.num * b.den)
             d == 100 * a.den * b.den
         IN  [num |-> n \div Gcd(Abs(n), d), den |-> d \div Gcd(Abs(n), d)]

scale_mask(r, min_spend, p75) ==
    /\ FGe(r.cost, min_spend)
    /\ r.pred_future7_roas # NaN
    /\ FGe(r.pred_future7_roas, p75)

\* a comes before b in a descending sort_values: NaN goes last
Desc(a, b) == a # NaN /\ (b = NaN \/ FGt(a, b))

\* r1 comes strictly before r2 under the sort keys by, all descending
Precedes(r1, r2, by) ==
    \E i \in 1..Len(by) :
       /\ \A j \in 1..(i - 1) : r1[by[j]] = r2[by[j]]
       /\ Desc(r1[by[i]], r2[by[i]])

\* df.sort_values(by, ascending=[False, ...]): rows equal on every key keep
\* their order
RECURSIVE sort_values(_, _)
sort_values(rws, by) ==
    IF rws = <<>> THEN <<>>
    ELSE LET n == Len(rws)
             front == sort_values(SubSeq(rws, 1, n - 1), by)
             r == rws[n]
             k == Cardinality({i \in 1..Len(front) : ~Precedes(r, front[i], by)})
         IN  SubSeq(front, 1, k) \o <<r>> \o SubSeq(front, k + 1, Len(front))

SpikeColumns == {"cost_spike", "acos_spike", "sales_spike"}

WasteColumns == {"campaign_name", "cost", "sales", "orders", "roas", "acos",
                 "waste_risk_prob", "zero_sales_spend_flag"}

ScaleColumns == {"campaign_name", "cost", "sales", "orders", "roas", "acos",
                 "pred_future7_roas", "spend_share_total", "sales_share_total"}

NoList == [shown |-> FALSE, rows |-> <<>>]

\* One run of the script on the rows day_df of the selected day. status is
\* "stopped" (no rows), "rendered", or the exception that ended the run;
\* day_df is the day's frame after the scoring call, X what the models
\* received, predicted what predict_with_models returned, scored its cleaned form;
\* waste and scale are the selections of lines 44-56, waste_list and
\* scale_list the tables the page has displayed.
recommendations_run(day_df, features, waste_prob, future_roas, min_spend, waste_prob_cutoff) ==
    IF day_df.rows = <<>>
    THEN [status |-> "stopped", day_df |-> day_df, X |-> <<>>,
          predicted |-> day_df, scored |-> day_df,
          waste |-> <<>>, scale |-> <<>>, waste_list |-> NoList, scale_list |-> NoList]
    ELSE LET p == predict_with_models(day_df, features, waste_prob, future_roas)
             scored == clean(p.out)
             waste == SelectSeq(scored.rows,
                         LAMBDA r : waste_mask(scored, r, min_spend, waste_prob_cutoff))
             p75 == nanpercentile([i \in 1..Len(scored.rows) |->
                                     scored.rows[i].pred_future7_roas], 75)
             scale == SelectSeq(scored.rows, LAMBDA r : scale_mask(r, min_spend, p75))
             run == [status |-> "rendered", day_df |-> p.df_features, X |-> p.X,
                     predicted |-> p.out, scored |-> scored, waste |-> waste, scale |-> scale,
                     waste_list |-> NoList, scale_list |-> NoList]
             \* scored.get(<spike column>, False) == True is the bool False for an
             \* absent column; with all three absent the mask is False and
             \* scored[False] looks up a column named False
             spikes_ok == SpikeColumns \cap scored.columns # {}
             waste_ok == waste = <<>> \/ WasteColumns \subseteq scored.columns
             scale_ok == scale = <<>> \/ ScaleColumns \subseteq scored.columns
             waste_shown == [shown |-> TRUE,
                             rows |-> sort_values(waste, <<"waste_risk_prob", "cost">>)]
             scale_shown == [shown |-> TRUE,
                             rows |-> sort_values(scale, <<"pred_future7_roas", "sales">>)]
         IN  IF ~spikes_ok THEN [run EXCEPT !.status = "KeyError"]
             ELSE IF ~waste_ok THEN [run EXCEPT !.status = "KeyError"]
             ELSE IF ~scale_ok
                  THEN [run EXCEPT !.status = "KeyError",
                                   !.waste_list = IF waste = <<>> THEN NoList ELSE waste_shown]
             ELSE [run EXCEPT !.waste_list = IF waste = <<>> THEN NoList ELSE waste_shown,
                              !.scale_list = IF scale = <<>> THEN NoList ELSE scale_shown]

\* the inputs of the page: the columns of campaign_daily.parquet beyond those
\* the script requires are there or not
BaseColumns == {"campaign_name", "date", "cost", "sales", "orders", "roas", "acos"}

ShareColumns == {"spend_share_total", "sales_share_total"}

ColumnSets ==
    {BaseColumns \cup f \cup s \cup k :
        f \in {{}, {"zero_sales_spend_flag"}}, s \in {{}, ShareColumns},
        k \in {{}, SpikeColumns}}

\* (cost, sales) cells of a row; a cost cell may be null
MoneyCells == {<<NaN, F(0)>>, <<F(1), F(0)>>, <<F(1), F(1)>>}

DayRows(cols) ==
    {[col \in {"cost", "sales"} \cup (cols \cap {"zero_sales_spend_flag"}) |->
        CASE col = "cost" -> m[1]
          [] col = "sales" -> m[2]
          [] OTHER -> b]
     : m \in MoneyCells, b \in BOOLEAN}

\* (waste_risk_prob, pred_future7_roas) the models answer for a row
PredCases == {<<NaN, NaN>>, <<F(0), F(1)>>, <<F(1), F(1)>>, <<F(1), F(2)>>}

\* a day of five rows whose predicted ROAS are 1..5 in some order
ExampleOrders == {<<1, 2, 3, 4, 5>>, <<5, 4, 3, 2, 1>>, <<3, 5, 1, 4, 2>>}

ExampleCases ==
    {<<[columns |-> BaseColumns \cup ShareColumns \cup SpikeColumns
                      \cup {"zero_sales_spend_flag"},
        rows |-> [i \in 1..5 |-> [cost |-> c[i], sales |-> F(0),
                                  zero_sales_spend_flag |-> FALSE]]],
       [i \in 1..5 |-> <<F(0), F(o[i])>>]>>
     : c \in [1..5 -> {F(0), F(1)}], o \in ExampleOrders}

\* schema["features"] of model_schema.json
FeatureLists == {<<"cost", "cost_7d">>, <<"clicks_7d", "sales", "cost">>}

SpendArgs == {F(0), F(1)}

CutoffArgs == {F(0), F(1)}

\* one run of the Recommendations page script; answers[i] is what the two
\* models answer for row i
Recommendations(day_df, answers, features, min_spend, waste_prob_cutoff) ==
    LET waste_prob == [i \in 1..Len(day_df.rows) |-> answers[i][1]]
        future_roas == [i \in 1..Len(day_df.rows) |-> answers[i][2]]
    IN  /\ ~reco.called
        /\ reco' = [called |-> TRUE, day_df |-> day_df, features |-> features,
                    waste_prob |-> waste_prob, future_roas |-> future_roas,
                    min_spend |-> min_spend, waste_prob_cutoff |-> waste_prob_cutoff,
                    run |-> recommendations_run(day_df, features, waste_prob,
                                                future_roas, min_spend, waste_prob_cutoff)]
        /\ UNCHANGED <<disk, cache, last, kpi, agg, overview, reads, threads>>

RecoDone ==
    /\ reco.called
    /\ reco' = NoReco
    /\ UNCHANGED <<disk, cache, last, kpi, agg, overview, reads, threads>>

NextReco ==
    \/ ~reco.called /\
          \E cols \in ColumnSets, k \in 0..MaxScored, features \in FeatureLists,
             min_spend \in SpendArgs, waste_prob_cutoff \in CutoffArgs :
             \E rws \in [1..k -> DayRows(cols)], answers \in [1..k -> PredCases] :
                Recommendations([columns |-> cols, rows |-> rws], answers,
                                features, min_spend, waste_prob_cutoff)
    \/ ~reco.called /\
          \E case \in ExampleCases, features \in FeatureLists,
             min_spend \in SpendArgs, waste_prob_cutoff \in CutoffArgs :
              Recommendations(case[1], case[2], features, min_spend, waste_prob_cutoff)
    \/ RecoDone

SpecReco == InitPages /\ [][NextReco]_vars

-----------------------------------------------------------------------------
(* Claims about the Recommendations page *)

Scored == reco.called /\ reco.day_df.rows # <<>>

\* a and b hold the same rows, each the same number of times
SameRows(a, b) ==
    \A r \in {a[i] : i \in 1..Len(a)} \cup {b[i] : i \in 1..Len(b)} :
       Cardinality({i \in 1..Len(a) : a[i] = r}) = Cardinality({i \in 1..Len(b) : b[i] = r})

\* x is at least y, an undefined value being below every defined one
AtLeast(x, y) == y = NaN \/ (x # NaN /\ x.num * y.den >= y.num * x.den)

\* rws is in descending order of key1, rows equal on key1 in descending order of key2
Descending(rws, key1, key2) ==
    \A i, j \in 1..Len(rws) :
       i < j => /\ AtLeast(rws[i][key1], rws[j][key1])
                /\ rws[i][key1] = rws[j][key1] => AtLeast(rws[i][key2], rws[j][key2])

IsWaste(r) ==
    /\ r.cost # NaN /\ r.cost.num * reco.min_spend.den >= reco.min_spend.num * r.cost.den
    /\ \/ "zero_sales_spend_flag" \in DOMAIN r /\ r.zero_sales_spend_flag
       \/ /\ r.waste_risk_prob # NaN
          /\ r.waste_risk_prob.num * reco.waste_prob_cutoff.den
                >= reco.waste_prob_cutoff.num * r.waste_risk_prob.den

WasteListed(run) ==
    /\ SameRows(run.waste_list.rows, SelectSeq(run.scored.rows, IsWaste))
    /\ Descending(run.waste_list.rows, "waste_risk_prob", "cost")

\* C12: a scored row is a waste candidate iff cost >= min_spend and (its waste
\* flag is true or waste_risk_prob >= prob_cutoff), an absent flag column
\* counting as false and an undefined probability never reaching the cutoff;
\* the candidates are listed by waste_risk_prob descending, then cost descending.
C12_WasteCandidates ==
    Scored => WasteListed(reco.run)

\* C12, the selection alone: the rows selected at lines 44-50 are the rows the
\* claim names, and a waste table that is displayed holds them in the order
\* the claim names.
C12_SelectionOnly ==
    Scored =>
       /\ SameRows(reco.run.waste, SelectSeq(reco.run.scored.rows, IsWaste))
       /\ reco.run.waste_list.shown => WasteListed(reco.run)

\* the 75th percentile of the values 1..5 is 4
IsOneToFive(vals) ==
    Len(vals) = 5 /\ {vals[i] : i \in 1..5} = {F(n) : n \in 1..5}

IsScale(r) ==
    /\ r.cost # NaN /\ r.cost.num * reco.min_spend.den >= reco.min_spend.num * r.cost.den
    /\ r.pred_future7_roas # NaN
    /\ LET p == nanpercentile(reco.future_roas, 75)
       IN  r.pred_future7_roas.num * p.den >= p.num * r.pred_future7_roas.den

ScaleListed(run) ==
    /\ SameRows(run.scale_list.rows, SelectSeq(run.scored.rows, IsScale))
    /\ Descending(run.scale_list.rows, "pred_future7_roas", "sales")
    /\ IsOneToFive(reco.future_roas) =>
          \A i \in 1..5 :
             (\E k \in 1..Len(run.scale_list.rows) :
                 run.scale_list.rows[k] = run.scored.rows[i])
             <=> /\ AtLeast(run.scored.rows[i].cost, reco.min_spend)
                 /\ run.scored.rows[i].pred_future7_roas \in {F(4), F(5)}

\* C13: a scored row is a scale candidate iff cost >= min_spend and
\* pred_future7_roas is defined and at least the 75th percentile (linear
\* interpolation) of all defined pred_future7_roas values of the scored set;
\* for the values 1..5 the candidates are the rows with 4 and 5; with no
\* defined value there is no candidate; the candidates are listed by
\* pred_future7_roas descending, then sales descending.
C13_ScaleCandidates ==
    Scored => ScaleListed(reco.run)

\* C13, the selection alone: the rows selected at lines 52-56 are the rows the
\* claim names, and a scale table that is displayed holds them in the order
\* the claim names.
C13_SelectionOnly ==
    Scored =>
       /\ SameRows(reco.run.scale, SelectSeq(reco.run.scored.rows, IsScale))
       /\ reco.run.scale_list.shown => ScaleListed(reco.run)

\* the value the models are given for a feature of row r
FeatureValue(r, col) == IF col \in DOMAIN r THEN r[col] ELSE F(0)

\* C14: predict_with_models gives every schema feature absent from the input
\* the default 0, hands the models exactly the schema's features in schema
\* order, and returns the input rows (same count, same order, every original
\* column unchanged) with waste_risk_prob and pred_future7_roas added; the
\* input table is not modified and the defaults appear neither in it nor in
\* the output.
C14_ScoringPass ==
    Scored =>
       LET rws == reco.day_df.rows
           out == reco.run.predicted
       IN  /\ Len(reco.run.X) = Len(rws)
           /\ \A i \in 1..Len(rws) :
                 reco.run.X[i] = [j \in 1..Len(reco.features) |->
                                    FeatureValue(rws[i], reco.features[j])]
           /\ reco.run.day_df = reco.day_df
           /\ out.columns = reco.day_df.columns \cup {"waste_risk_prob", "pred_future7_roas"}
           /\ Len(out.rows) = Len(rws)
           /\ \A i \in 1..Len(rws) :
                 /\ DOMAIN out.rows[i] =
                       DOMAIN rws[i] \cup {"waste_risk_prob", "pred_future7_roas"}
                 /\ \A col \in DOMAIN rws[i] : out.rows[i][col] = rws[i][col]
                 /\ out.rows[i].waste_risk_prob = reco.waste_prob[i]
                 /\ out.rows[i].pred_future7_roas = reco.future_roas[i]

\* two different rows scored under a schema that declares a feature the input
\* lacks (clicks_7d) ahead of two it has
C14_Witness ==
    /\ Scored
    /\ reco.features = <<"clicks_7d", "sales", "cost">>
    /\ Len(reco.day_df.rows) = 2
    /\ reco.day_df.rows[1].cost = NaN /\ reco.day_df.rows[2].cost = F(1)
    /\ reco.run.X = <<<<F(0), reco.day_df.rows[1].sales, NaN>>,
                      <<F(0), reco.day_df.rows[2].sales, F(1)>>>>
    /\ "clicks_7d" \notin reco.run.predicted.columns
    /\ reco.run.predicted.rows[2].waste_risk_prob = F(1)
    /\ reco.run.predicted.rows[1].waste_risk_prob = F(0)

-----------------------------------------------------------------------------
(* The service while the files under artifacts/processed are rewritten *)

\* the tables a rewrite of the files can leave behind
DiskVersions == {rws \in RawTables : Len(rws) <= 1}

InitDisk ==
    /\ \E rws \in DiskVersions : disk = DiskOf(rws)
    /\ cache = EmptyCache
    /\ last = NoCall
    /\ kpi = NoKpi
    /\ agg = NoAgg
    /\ overview = NoOverview
    /\ reco = NoReco
    /\ reads = NoReads
    /\ threads = NoThreads

\* the upstream pipeline replaces the processed files between two requests
WriteDisk(rws) ==
    /\ ~last.called
    /\ disk' = DiskOf(rws)
    /\ disk' # disk
    /\ UNCHANGED <<cache, last, kpi, agg, overview, reco, reads, threads>>

NextDisk ==
    \/ ~last.called /\ \E name \in TableNames : GetRecords(name, {}, {}, {}, {})
    \/ Return
    \/ ~last.called /\ \E rws \in DiskVersions : WriteDisk(rws)

SpecDisk == InitDisk /\ [][NextDisk]_vars

\* the files as they were for table name when the service read it
AsLoaded(name) ==
    [disk EXCEPT ![name] = [parquet |-> {reads[name][1]}, csv |-> NoFile]]

\* C15: on one DataService storage is read at most once per table name; a
\* cache entry, once present, stays and stays what the first load made it; and
\* every later call for the name is served from it, so that it returns what the
\* files held when the table was loaded, not what they hold now.
C15_LoadOnce ==
    /\ \A n \in TableNames : Len(reads[n]) <= 1
    /\ DOMAIN cache = {n \in TableNames : reads[n] # <<>>}
    /\ \A n \in DOMAIN cache : cache[n] = normalize(reads[n][1])
    /\ Ok => last.records =
               get_records(EmptyCache, AsLoaded(last.name), last.name, last.start_date,
                           last.end_date, last.campaign_id, last.limit).records

\* a call served from the cache returned the row loaded earlier although the
\* file has been rewritten since and holds another row now
C15_Witness ==
    /\ Ok
    /\ ~last.loaded
    /\ last.name = "campaign_daily"
    /\ Len(last.records) = 1
    /\ Len(SourceFrame(last.name).rows) = 1
    /\ reads[last.name][1] # SourceFrame(last.name)
    /\ last.records # FirstCall.records

-----------------------------------------------------------------------------
(* The service under concurrent requests: the routes are plain def functions, *)
(* which the server runs on worker threads, so several get_records calls can  *)
(* be inside get_table at once. Each thread has a position (pc), the          *)
(* parameters of its call, its local df, and whether that df is the object    *)
(* the cache holds for the name (stored).                                     *)

\* the statements of get_table in program order: line 41, 42, 45-46, 48, 50
get_table_order == <<"check", "read", "normalize", "store", "fetch">>

StepAfter(pc) ==
    get_table_order[1 + CHOOSE i \in 1..Len(get_table_order) : get_table_order[i] = pc]

RaceDateArgs == {{}, {DayStr[MaxDay]}}

\* the tables the concurrent requests ask for: one that exists, one that does not
RaceNames == {"campaign_daily", "unknown_daily"}

\* a request reaches get_records on thread t
Begin(t, name, start_date) ==
    /\ threads[t].pc = "idle"
    /\ threads' = [threads EXCEPT ![t] =
                     [pc |-> "check", name |-> name, start_date |-> start_date,
                      df |-> Frame({}, <<>>), stored |-> FALSE,
                      err |-> "", records |-> <<>>]]
    /\ UNCHANGED <<disk, cache, last, kpi, agg, overview, reco, reads>>

\* line 41: if name not in self._cache
Check(t) ==
    /\ threads[t].pc = "check"
    /\ threads' = [threads EXCEPT ![t].pc =
                     IF threads[t].name \notin DOMAIN cache
                     THEN StepAfter("check") ELSE "fetch"]
    /\ UNCHANGED <<disk, cache, last, kpi, agg, overview, reco, reads>>

\* line 42: df = self._read_table(name), which may raise
Read(t) ==
    LET r == _read_table(disk, threads[t].name) IN
    /\ threads[t].pc = "read"
    /\ threads' = [threads EXCEPT ![t] =
                     IF r.err # ""
                     THEN [@ EXCEPT !.pc = "done", !.err = r.err]
                     ELSE [@ EXCEPT !.pc = StepAfter("read"), !.df = r.df]]
    /\ reads' = IF r.err # "" THEN reads
                ELSE [reads EXCEPT ![threads[t].name] = Append(@, r.df)]
    /\ UNCHANGED <<disk, cache, last, kpi, agg, overview, reco>>

\* lines 45-46: the date column is replaced in df, the object itself; the
\* cache sees it when it holds that object
Normalize(t) ==
    /\ threads[t].pc = "normalize"
    /\ threads' = [threads EXCEPT ![t].pc = StepAfter("normalize"),
                                  ![t].df = normalize(@)]
    /\ cache' = IF threads[t].stored
                THEN [cache EXCEPT ![threads[t].name] = normalize(threads[t].df)]
                ELSE cache
    /\ UNCHANGED <<disk, last, kpi, agg, overview, reco, reads>>

\* line 48: self._cache[name] = df; the object another thread stored before
\* is no longer the cached one
Store(t) ==
    /\ threads[t].pc = "store"
    /\ cache' = (threads[t].name :> threads[t].df) @@ cache
    /\ threads' = [u \in Threads |->
                     IF u = t
                     THEN [threads[u] EXCEPT !.pc = StepAfter("store"), !.stored = TRUE]
                     ELSE IF threads[u].pc # "idle" /\ threads[u].name = threads[t].name
                          THEN [threads[u] EXCEPT !.stored = FALSE]
                          ELSE threads[u]]
    /\ UNCHANGED <<disk, last, kpi, agg, overview, reco, reads>>

\* line 50 and lines 60-88: the cached frame is taken, copied, filtered and
\* serialized
Fetch(t) ==
    LET r == get_records(cache, disk, threads[t].name, threads[t].start_date, {}, {}, {})
    IN  /\ threads[t].pc = "fetch"
        /\ threads[t].name \in DOMAIN cache
        /\ threads' = [threads EXCEPT ![t].pc = "done", ![t].err = r.err,
                                      ![t].records = r.records]
        /\ cache' = r.cache
        /\ UNCHANGED <<disk, last, kpi, agg, overview, reco, reads>>

\* the response of thread t has been sent
Respond(t) ==
    /\ threads[t].pc = "done"
    /\ threads' = [threads EXCEPT ![t] = NoThread]
    /\ UNCHANGED <<disk, cache, last, kpi, agg, overview, reco, reads>>

NextRace ==
    \/ \E t \in Threads, name \in RaceNames, start_date \in RaceDateArgs :
          Begin(t, name, start_date)
    \/ \E t \in Threads : Check(t)
    \/ \E t \in Threads : Read(t)
    \/ \E t \in Threads : Normalize(t)
    \/ \E t \in Threads : Store(t)
    \/ \E t \in Threads : Fetch(t)
    \/ \E t \in Threads : Respond(t)

SpecRace == InitDisk /\ [][NextRace]_vars

\* what the call of thread t returns when it is the only call on a new DataService
Sequential(t) ==
    get_records(EmptyCache, disk, threads[t].name, threads[t].start_date, {}, {}, {})

\* C16: under every interleaving of concurrent get_records calls, each call
\* returns exactly what a sequential call with the same parameters returns,
\* and the cache holds the normalized table for each name it has (the table
\* may be loaded more than once, the last write winning).
C16_ConcurrentFirstAccess ==
    /\ \A t \in Threads :
          threads[t].pc = "done" =>
             /\ threads[t].err = Sequential(t).err
             /\ threads[t].records = Sequential(t).records
             /\ threads[t].err = "" =>
                   threads[t].name \in DOMAIN cache
    /\ \A n \in DOMAIN cache : HasFile(n) /\ cache[n] = normalize(SourceFrame(n))

\* two calls for the same table, both begun before it was cached, have both
\* loaded it and both returned its row
C16_Witness ==
    /\ \A t \in Threads : threads[t].pc = "done" /\ threads[t].name = "campaign_daily"
    /\ Len(reads["campaign_daily"]) >= 2
    /\ \A t \in Threads : Len(threads[t].records) = 1

====
